---- MODULE Spec2Model ----
(***************************************************************************)
(* Model of src/node/app.ts: createApp (transport selection, bind, upgrade *)
(* attachment), listen (the bind sequence with its error observers),       *)
(* ensureAddress, handleServerError and handleArgsSocketCatchError.        *)
(*                                                                         *)
(* Strings the code inspects or builds character by character (host,       *)
(* socket path, addresses) are sequences of one-character strings; other   *)
(* values (error codes, file names) are plain strings.                     *)
(***************************************************************************)
EXTENDS Integers, Sequences, FiniteSets, TLC

VARIABLES
    args,        \* the DefaultedArgs handed to createApp
    pc,          \* position of createApp
    lpc,         \* position of the async executor inside listen
    objs,        \* the express apps created so far; an app is its index
    app,         \* createApp's local app
    wsApp,       \* createApp's local wsApp
    server,      \* the http.Server / httpolyglot server object
    promise,     \* the promise returned by listen
    outcomes,    \* history: every transition of that promise out of pending
    result,      \* the promise returned by createApp
    log,         \* entries written to the logger
    listenCalls, \* history: every server.listen call begun
    unlinkCalls, \* history: every fs.unlink call begun
    unlinkDone,  \* history: how each fs.unlink call ended
    fileReads,   \* history: every fs.readFile call begun
    signals,     \* history: 'error' / 'listening' events emitted by the server
    rejectCalls, \* history: the errors handed to the reject function of listen
    readDone,    \* history: how each fs.readFile call ended
    flag,        \* the flag-based handler: its resolved flag, reject calls and log
    addrIn,      \* ensureAddress: the server it is applied to
    addrOut      \* ensureAddress: what the call produced

vars == <<args, pc, lpc, objs, app, wsApp, server, promise, outcomes, result, log,
          listenCalls, unlinkCalls, unlinkDone, fileReads, signals,
          rejectCalls, readDone, flag, addrIn, addrOut>>

bindVars == <<args, pc, lpc, objs, app, wsApp, server, promise, outcomes, result, log,
              listenCalls, unlinkCalls, unlinkDone, fileReads, signals,
              rejectCalls, readDone, flag>>

\* what only the server's events change
eventVars == <<rejectCalls, flag>>

addrVars == <<addrIn, addrOut>>

(***************************************************************************)
(* Bounds and input domains                                                *)
(***************************************************************************)
\* number of 'error' events the server emits in one behaviour
MaxErrors == 3

\* errors the server can emit
Errors == {"EADDRINUSE", "EACCES"}

SockPath == <<"/", "t", "m", "p", "/", "a", "p", "p", ".", "s", "o", "c", "k">>

Sockets == {<<>>, SockPath}

Hosts == { <<"[", ":", ":", "1", "]">>,
           <<":", ":", "1">>,
           <<"[", ":", ":", "1">>,
           <<":", ":", "1", "]">>,
           <<"a", "]", "[", "b">>,
           <<"[", "[", "a", "]", "]">>,
           <<"]">>,
           <<"[", "]">>,
           <<>> }

Ports == {0, 8080}

\* args.cert is an OptionalString ({value}) or undefined
Certs == {"undefined", "/cert.pem"}

\* args["cert-key"] is a string or undefined
CertKeys == {"undefined", "", "/key.pem"}

\* what fs.readFile yields
ReadOutcomes == {"ok", "EISDIR"}

\* what fs.unlink yields: success or a thrown value
UnlinkErrors == [errno : BOOLEAN, code : {"ENOENT", "EACCES"}, message : {"", "unlink failed"}]

NoUnlinkError == [errno |-> FALSE, code |-> "", message |-> ""]

\* a test for undefined only, which takes the empty string for a file name
Truthy_definedOnly(s) == s # "undefined"

\* JavaScript truthiness of an optional string
Truthy(s) == s # "undefined" /\ s # ""

(***************************************************************************)
(* Objects                                                                 *)
(***************************************************************************)
NoAddress == [kind |-> "null", path |-> <<>>, address |-> <<>>, port |-> 0]

PathAddress(p) == [kind |-> "string", path |-> p, address |-> <<>>, port |-> 0]

InfoAddress(a, n) == [kind |-> "info", path |-> <<>>, address |-> a, port |-> n]

NoServer ==
    [kind |-> "none", cert |-> "undefined", key |-> "undefined", handler |-> 0,
     errorListeners |-> <<>>, listeningListeners |-> <<>>,
     requestListeners |-> <<>>, upgradeListeners |-> <<>>,
     target |-> NoAddress, address |-> NoAddress]

Pending == [state |-> "pending", value |-> "undefined"]

NoResult == [state |-> "pending", value |-> "undefined", app |-> 0, wsApp |-> 0]

\* the state the handlers of one event read and write
Heap == [server |-> server, promise |-> promise, outcomes |-> outcomes, log |-> log,
         rejectCalls |-> rejectCalls]

\* express(): a fresh application object with an empty chain
express(os) == Append(os, <<>>)

\* app.use(mw)
use(os, a, mw) == [os EXCEPT ![a] = Append(@, mw)]

\* http.createServer(app): plaintext server wired to app
httpCreateServer(a) ==
    [NoServer EXCEPT !.kind = "http", !.handler = a, !.requestListeners = <<a>>]

\* httpolyglot.createServer({cert, key}, app): encrypted-transport server wired to app
httpolyglotCreateServer(c, k, a) ==
    [NoServer EXCEPT !.kind = "httpolyglot", !.cert = c, !.key = k,
                     !.handler = a, !.requestListeners = <<a>>]

\* the contents fs.readFile yields for a file
FileBytes(f) == IF f = "/cert.pem" THEN "CERT-BYTES" ELSE "KEY-BYTES"

(***************************************************************************)
(* Promise and event-emitter primitives                                    *)
(***************************************************************************)
\* a settle that overwrites an outcome already decided
Settle_overwrites(h, p) ==
    [h EXCEPT !.promise = p, !.outcomes = Append(@, p)]

\* settle the listen promise: only a pending promise changes state
Settle(h, p) ==
    IF h.promise.state = "pending"
    THEN [h EXCEPT !.promise = p, !.outcomes = Append(@, p)]
    ELSE h

\* a provisional observer that fails the bind without passing the error on
reject_dropsError(h, e) ==
    Settle([h EXCEPT !.rejectCalls = Append(@, e)],
           [state |-> "rejected", value |-> "undefined"])

\* a provisional observer that logs the errors it receives once the outcome is settled
reject_logsWhenSettled(h, e) ==
    IF h.promise.state = "pending"
    THEN Settle([h EXCEPT !.rejectCalls = Append(@, e)],
                [state |-> "rejected", value |-> e])
    ELSE [h EXCEPT !.rejectCalls = Append(@, e),
                   !.log = Append(@, [level |-> "error", prefix |-> "http server error",
                                      text |-> e])]

\* the reject function of the listen promise
reject(h, e) ==
    Settle([h EXCEPT !.rejectCalls = Append(@, e)], [state |-> "rejected", value |-> e])

\* the resolve function of the listen promise
resolve(h) == Settle(h, [state |-> "resolved", value |-> "undefined"])

\* emitter.on(event, l): l is appended to the listeners
on(ls, l) == Append(ls, l)

RECURSIVE LastIndexOf(_, _, _)
LastIndexOf(ls, l, i) ==
    IF i = 0 THEN 0
    ELSE IF ls[i] = l THEN i
    ELSE LastIndexOf(ls, l, i - 1)

\* emitter.off(event, l): the most recently added instance of l is removed
off(ls, l) ==
    LET i == LastIndexOf(ls, l, Len(ls))
    IN IF i = 0 THEN ls
       ELSE [j \in 1..(Len(ls) - 1) |-> IF j < i THEN ls[j] ELSE ls[j + 1]]

\* the permanent observer: util.logError(logger, "http server error", err)
logServerError(h, e) ==
    [h EXCEPT !.log = Append(@, [level |-> "error", prefix |-> "http server error",
                                 text |-> e])]

\* one listener of the server's 'error' event
HandleError(l, h, e) ==
    IF l = "reject" THEN reject(h, e) ELSE logServerError(h, e)

\* emitter.emit: the listeners registered when the event is emitted run in order
RECURSIVE EmitErrorTo(_, _, _)
EmitErrorTo(ls, h, e) ==
    IF ls = <<>> THEN h
    ELSE EmitErrorTo(Tail(ls), HandleError(Head(ls), h, e), e)

(***************************************************************************)
(* listen                                                                  *)
(***************************************************************************)
\* a callback that resolves without installing the permanent observer
onListen_noLogObserver(h) ==
    resolve([h EXCEPT !.server.errorListeners = off(@, "reject")])

\* a callback that swaps the observers and forgets to resolve
onListen_noResolve(h) ==
    LET h1 == [h EXCEPT !.server.errorListeners = off(@, "reject")]
    IN [h1 EXCEPT !.server.errorListeners = on(@, "log")]

\* a callback that leaves the provisional observer registered
onListen_keepsReject(h) ==
    resolve([h EXCEPT !.server.errorListeners = on(@, "log")])

\* the callback of server.listen
onListen(h) ==
    LET h1 == [h EXCEPT !.server.errorListeners = off(@, "reject")]
        h2 == [h1 EXCEPT !.server.errorListeners = on(@, "log")]
    IN resolve(h2)

RECURSIVE EmitListeningTo(_, _)
EmitListeningTo(ls, h) ==
    IF ls = <<>> THEN h
    ELSE EmitListeningTo(Tail(ls), onListen(h))

\* error.code !== "ENOENT" guarded by the errno type test
isNodeJSErrnoException(error) == error.errno

\* the condition with && in place of ||
handleArgsSocketCatchError_and(lg, error) ==
    IF ~isNodeJSErrnoException(error) /\ error.code # "ENOENT"
    THEN Append(lg, [level |-> "error", prefix |-> "",
                     text |-> IF error.message # "" THEN error.message ELSE error.code])
    ELSE lg

\* handleArgsSocketCatchError: what it appends to the log
handleArgsSocketCatchError(lg, error) ==
    IF ~isNodeJSErrnoException(error) \/ error.code # "ENOENT"
    THEN Append(lg, [level |-> "error", prefix |-> "",
                     text |-> IF error.message # "" THEN error.message ELSE error.code])
    ELSE lg

RECURSIVE ReplaceFrom(_, _)
ReplaceFrom(host, i) ==
    IF i > Len(host) THEN <<>>
    ELSE IF (i = 1 /\ host[i] = "[") \/ (i = Len(host) /\ host[i] = "]")
         THEN ReplaceFrom(host, i + 1)
         ELSE <<host[i]>> \o ReplaceFrom(host, i + 1)

RECURSIVE ReplaceFirstFrom(_, _)
ReplaceFirstFrom(host, i) ==
    IF i > Len(host) THEN <<>>
    ELSE IF (i = 1 /\ host[i] = "[") \/ (i = Len(host) /\ host[i] = "]")
         THEN SubSeq(host, i + 1, Len(host))
         ELSE <<host[i]>> \o ReplaceFirstFrom(host, i + 1)

\* the pattern without its g flag: only the first match is deleted
hostReplace_firstOnly(host) == ReplaceFirstFrom(host, 1)

\* host.replace(/^\[|\]$/g, ""): every match of the pattern is deleted
hostReplace(host) == ReplaceFrom(host, 1)

\* server.listen(socket, onListen)
listenSocket(s, socket) ==
    [s EXCEPT !.listeningListeners = Append(@, "onListen"),
              !.target = PathAddress(socket)]

\* server.listen(port, host, onListen)
listenNet(s, port, host) ==
    [s EXCEPT !.listeningListeners = Append(@, "onListen"),
              !.target = InfoAddress(host, port)]

\* the branch on socket without its else: the host and port are listened on too
ListenBegin_noElse(s) ==
    LET s1 == [s EXCEPT !.errorListeners = on(@, "reject")]
    IN /\ promise' = Pending
       /\ outcomes' = <<>>
       /\ server' = listenNet(s1, args.port, hostReplace(args.host))
       /\ listenCalls' = Append(listenCalls,
                                InfoAddress(hostReplace(args.host), args.port))
       /\ IF args.socket # <<>>
          THEN /\ unlinkCalls' = Append(unlinkCalls, args.socket)
               /\ lpc' = "unlinking"
          ELSE /\ unlinkCalls' = unlinkCalls
               /\ lpc' = "listenCalled"

\* fs.unlink not awaited: listen on the path is begun while the removal runs
ListenBegin_noAwait(s) ==
    LET s1 == [s EXCEPT !.errorListeners = on(@, "reject")]
    IN /\ promise' = Pending
       /\ outcomes' = <<>>
       /\ IF args.socket # <<>>
          THEN /\ server' = listenSocket(s1, args.socket)
               /\ unlinkCalls' = Append(unlinkCalls, args.socket)
               /\ listenCalls' = Append(listenCalls, PathAddress(args.socket))
               /\ lpc' = "unlinking"
          ELSE /\ server' = listenNet(s1, args.port, hostReplace(args.host))
               /\ unlinkCalls' = unlinkCalls
               /\ listenCalls' = Append(listenCalls,
                                        InfoAddress(hostReplace(args.host), args.port))
               /\ lpc' = "listenCalled"

\* listen(server, args) up to its first suspension: the provisional observer
\* is registered, then either the unlink is begun or server.listen is called
ListenBegin(s) ==
    LET s1 == [s EXCEPT !.errorListeners = on(@, "reject")]
    IN /\ promise' = Pending
       /\ outcomes' = <<>>
       /\ IF args.socket # <<>>
          THEN /\ server' = s1
               /\ unlinkCalls' = Append(unlinkCalls, args.socket)
               /\ listenCalls' = listenCalls
               /\ lpc' = "unlinking"
          ELSE /\ server' = listenNet(s1, args.port, hostReplace(args.host))
               /\ unlinkCalls' = unlinkCalls
               /\ listenCalls' = Append(listenCalls,
                                        InfoAddress(hostReplace(args.host), args.port))
               /\ lpc' = "listenCalled"

\* await fs.unlink(socket) completes; the catch block and server.listen follow
UnlinkReturns ==
    /\ lpc = "unlinking"
    /\ \E r \in UnlinkErrors \cup {NoUnlinkError} :
          /\ unlinkDone' = Append(unlinkDone, r)
          /\ log' = IF r = NoUnlinkError THEN log
                    ELSE handleArgsSocketCatchError(log, r)
    /\ server' = listenSocket(server, args.socket)
    /\ listenCalls' = Append(listenCalls, PathAddress(args.socket))
    /\ lpc' = "listenCalled"
    /\ UNCHANGED <<args, pc, objs, app, wsApp, promise, outcomes, result, unlinkCalls,
                   fileReads, signals, readDone, eventVars, addrVars>>

NoFlag == [resolved |-> FALSE, rejectCalls |-> <<>>, log |-> <<>>]

\* the handler with its two branches exchanged
handleServerError_inverted(resolved, err, f) ==
    IF resolved
    THEN [f EXCEPT !.rejectCalls = Append(@, err)]
    ELSE [f EXCEPT !.log = Append(@, [level |-> "error", prefix |-> "http server error",
                                      text |-> err])]

\* handleServerError(resolved, err, reject); f holds what reject and the
\* logger have received from it
handleServerError(resolved, err, f) ==
    IF ~resolved
    THEN [f EXCEPT !.rejectCalls = Append(@, err)]
    ELSE [f EXCEPT !.log = Append(@, [level |-> "error", prefix |-> "http server error",
                                      text |-> err])]

\* the server emits 'error'
ServerError ==
    /\ server.kind # "none"
    /\ Len(SelectSeq(signals, LAMBDA g : g.sig = "error")) < MaxErrors
    /\ \E e \in Errors :
          LET h == EmitErrorTo(server.errorListeners, Heap, e)
          IN /\ server' = h.server
             /\ promise' = h.promise
             /\ outcomes' = h.outcomes
             /\ log' = h.log
             /\ rejectCalls' = h.rejectCalls
             /\ flag' = handleServerError(flag.resolved, e, flag)
             /\ signals' = Append(signals, [sig |-> "error", err |-> e])
    /\ UNCHANGED <<args, pc, lpc, objs, app, wsApp, result, listenCalls, unlinkCalls,
                   unlinkDone, fileReads, readDone, addrVars>>

\* the server emits 'listening': it is bound to the target of its listen call
ServerListening ==
    /\ lpc = "listenCalled"
    /\ server.address.kind = "null"
    /\ LET h0 == [Heap EXCEPT !.server.address = server.target,
                              !.server.listeningListeners = <<>>]
           h == EmitListeningTo(server.listeningListeners, h0)
       IN /\ server' = h.server
          /\ promise' = h.promise
          /\ outcomes' = h.outcomes
          /\ log' = h.log
          /\ rejectCalls' = h.rejectCalls
    /\ flag' = [flag EXCEPT !.resolved = TRUE]
    /\ signals' = Append(signals, [sig |-> "listening", err |-> ""])
    /\ UNCHANGED <<args, pc, lpc, objs, app, wsApp, result, listenCalls, unlinkCalls,
                   unlinkDone, fileReads, readDone, addrVars>>

(***************************************************************************)
(* ensureAddress                                                           *)
(***************************************************************************)
Digit(d) == CASE d = 0 -> "0" [] d = 1 -> "1" [] d = 2 -> "2" [] d = 3 -> "3"
              [] d = 4 -> "4" [] d = 5 -> "5" [] d = 6 -> "6" [] d = 7 -> "7"
              [] d = 8 -> "8" [] d = 9 -> "9"

\* the decimal text a template literal produces for a non-negative integer
RECURSIVE NumberToString(_)
NumberToString(n) ==
    IF n < 10 THEN <<Digit(n)>>
    ELSE NumberToString(n \div 10) \o <<Digit(n % 10)>>

NotCalled == [called |-> FALSE, threw |-> FALSE, error |-> "", value |-> <<>>]

Returned(v) == [called |-> TRUE, threw |-> FALSE, error |-> "", value |-> v]

Threw(m) == [called |-> TRUE, threw |-> TRUE, error |-> m, value |-> <<>>]

\* a resolver that picks the scheme from the transport kind
ensureAddress_schemeByKind(s) ==
    LET addr == s.address
    IN IF addr.kind = "null" \/ (addr.kind = "string" /\ addr.path = <<>>)
       THEN Threw("server has no address")
       ELSE IF addr.kind # "string"
            THEN Returned((IF s.kind = "httpolyglot"
                           THEN <<"h", "t", "t", "p", "s", ":", "/", "/">>
                           ELSE <<"h", "t", "t", "p", ":", "/", "/">>)
                          \o addr.address \o <<":">> \o NumberToString(addr.port))
            ELSE Returned(addr.path)

\* ensureAddress(server); !addr holds of null and of the empty string
ensureAddress(s) ==
    LET addr == s.address
    IN IF addr.kind = "null" \/ (addr.kind = "string" /\ addr.path = <<>>)
       THEN Threw("server has no address")
       ELSE IF addr.kind # "string"
            THEN Returned(<<"h", "t", "t", "p", ":", "/", "/">> \o addr.address
                          \o <<":">> \o NumberToString(addr.port))
            ELSE Returned(addr.path)

(***************************************************************************)
(* createApp                                                               *)
(***************************************************************************)
\* handleUpgrade(wsApp, server): wsApp receives the server's 'upgrade' events
handleUpgrade(s, w) == [s EXCEPT !.upgradeListeners = Append(@, w)]

\* the upgrade handler taken to be the primary handler
newWsApp_reusesApp(os) == app

\* const wsApp = express(): the index of the object the call creates
newWsApp(os) == Len(os) + 1

\* a selector that also takes a private key alone for credentials
createServer_keySelects(a) ==
    IF args.cert # "undefined" \/ Truthy(args.certKey)
    THEN httpolyglotCreateServer(
             IF args.cert # "undefined" THEN FileBytes(args.cert) ELSE args.cert,
             IF Truthy(args.certKey) THEN FileBytes(args.certKey) ELSE args.certKey,
             a)
    ELSE httpCreateServer(a)

\* which server createApp builds once the credentials are read
createServer(a) ==
    IF args.cert # "undefined"
    THEN httpolyglotCreateServer(
             FileBytes(args.cert),
             IF Truthy(args.certKey) THEN FileBytes(args.certKey) ELSE args.certKey,
             a)
    ELSE httpCreateServer(a)

\* an await whose rejection is swallowed
awaitListen_swallows(p) == "continue"

\* await listen(server, args): a rejection is thrown into createApp
awaitListen(p) == IF p.state = "rejected" THEN "throw" ELSE "continue"

\* a call of listen that is not awaited: createApp goes on at once
awaitSettled_noAwait(p) == TRUE

\* await listen(server, args): createApp is suspended while the promise is pending
awaitSettled(p) == p.state # "pending"

\* a failed read whose error is swallowed
awaitRead_swallows(r) == "continue"

\* await fs.readFile(...): a failed read is thrown into createApp
awaitRead(r) == IF r # "ok" THEN "throw" ELSE "continue"

\* createApp up to its first suspension
CreateAppStart ==
    /\ pc = "start"
    /\ objs' = use(express(objs), Len(objs) + 1, "compression")
    /\ app' = Len(objs) + 1
    /\ IF args.cert # "undefined"
       THEN /\ fileReads' = Append(fileReads, args.cert)
            /\ pc' = "readCert"
            /\ UNCHANGED <<server, promise, outcomes, lpc, listenCalls, unlinkCalls>>
       ELSE /\ ListenBegin(createServer(Len(objs) + 1))
            /\ pc' = "awaitListen"
            /\ UNCHANGED fileReads
    /\ UNCHANGED <<args, wsApp, result, log, unlinkDone, signals, readDone,
                   eventVars, addrVars>>

\* await fs.readFile(args.cert.value) completes
ReadCertReturns ==
    /\ pc = "readCert"
    /\ \E r \in ReadOutcomes :
        /\ readDone' = Append(readDone, r)
        /\ IF awaitRead(r) = "throw"
          THEN /\ result' = [result EXCEPT !.state = "rejected", !.value = r]
               /\ pc' = "failed"
               /\ UNCHANGED <<server, promise, outcomes, lpc, listenCalls,
                              unlinkCalls, fileReads>>
          ELSE IF Truthy(args.certKey)
               THEN /\ fileReads' = Append(fileReads, args.certKey)
                    /\ pc' = "readKey"
                    /\ UNCHANGED <<server, promise, outcomes, lpc, listenCalls,
                                   unlinkCalls, result>>
               ELSE /\ ListenBegin(createServer(app))
                    /\ pc' = "awaitListen"
                    /\ UNCHANGED <<fileReads, result>>
    /\ UNCHANGED <<args, objs, app, wsApp, log, unlinkDone, signals, eventVars, addrVars>>

\* await fs.readFile(args["cert-key"]) completes
ReadKeyReturns ==
    /\ pc = "readKey"
    /\ \E r \in ReadOutcomes :
        /\ readDone' = Append(readDone, r)
        /\ IF awaitRead(r) = "throw"
          THEN /\ result' = [result EXCEPT !.state = "rejected", !.value = r]
               /\ pc' = "failed"
               /\ UNCHANGED <<server, promise, outcomes, lpc, listenCalls, unlinkCalls>>
          ELSE /\ ListenBegin(createServer(app))
               /\ pc' = "awaitListen"
               /\ UNCHANGED result
    /\ UNCHANGED <<args, objs, app, wsApp, log, unlinkDone, fileReads, signals,
                   eventVars, addrVars>>

\* await listen(server, args) completes: the rest of createApp, or its rejection
CreateAppResumes ==
    /\ pc = "awaitListen"
    /\ awaitSettled(promise)
    /\ IF awaitListen(promise) = "continue"
       THEN /\ objs' = express(objs)
            /\ wsApp' = newWsApp(objs)
            /\ server' = handleUpgrade(server, newWsApp(objs))
            /\ result' = [state |-> "resolved", value |-> "undefined",
                          app |-> app, wsApp |-> newWsApp(objs)]
            /\ pc' = "done"
       ELSE /\ result' = [result EXCEPT !.state = "rejected", !.value = promise.value]
            /\ pc' = "failed"
            /\ UNCHANGED <<objs, wsApp, server>>
    /\ UNCHANGED <<args, lpc, app, promise, outcomes, log, listenCalls, unlinkCalls,
                   unlinkDone, fileReads, signals, readDone, eventVars, addrVars>>

\* the caller of createApp asks for the address of the server it was handed
CallerEnsuresAddress ==
    /\ pc = "done"
    /\ ~addrOut.called
    /\ addrIn' = server
    /\ addrOut' = ensureAddress(server)
    /\ UNCHANGED bindVars

(***************************************************************************)
(* Specifications                                                          *)
(***************************************************************************)
InitBind ==
    /\ pc = "start"
    /\ lpc = "idle"
    /\ objs = <<>>
    /\ app = 0
    /\ wsApp = 0
    /\ server = NoServer
    /\ promise = Pending
    /\ outcomes = <<>>
    /\ result = NoResult
    /\ log = <<>>
    /\ listenCalls = <<>>
    /\ unlinkCalls = <<>>
    /\ unlinkDone = <<>>
    /\ fileReads = <<>>
    /\ signals = <<>>
    /\ rejectCalls = <<>>
    /\ readDone = <<>>
    /\ flag = NoFlag

Init ==
    /\ args \in [socket : Sockets, host : Hosts, port : Ports,
                 cert : Certs, certKey : CertKeys]
    /\ InitBind
    /\ addrIn = NoServer
    /\ addrOut = NotCalled

Next ==
    \/ CreateAppStart
    \/ ReadCertReturns
    \/ ReadKeyReturns
    \/ UnlinkReturns
    \/ ServerError
    \/ ServerListening
    \/ CreateAppResumes
    \/ CallerEnsuresAddress

Spec == Init /\ [][Next]_vars

\* the continuation of an await runs once its promise is settled
FairSpec == Spec /\ WF_vars(CreateAppResumes)

\* the server answers a listen call: it emits 'listening' or 'error'
ServerAnswers == lpc = "listenCalled" /\ (ServerListening \/ ServerError)

\* the removal of the socket file completes and the server answers the listen call
BindFairSpec == Spec /\ WF_vars(UnlinkReturns) /\ WF_vars(ServerAnswers)

\* ensureAddress on its own: any server, bound to a path, to a port, or unbound
AddrHosts == { <<"1", "2", "7", ".", "0", ".", "0", ".", "1">>,
               <<"0", ".", "0", ".", "0", ".", "0">>,
               <<":", ":", "1">>,
               <<":", ":">> }

AddrPorts == {80, 443, 3000, 8080, 65535, 7}

AddrPaths == { SockPath, <<"s">>, <<"h", "t", "t", "p", ":", "/", "/", "x">> }

Addresses ==
    {NoAddress} \cup {PathAddress(p) : p \in AddrPaths}
                \cup {InfoAddress(a, n) : a \in AddrHosts, n \in AddrPorts}

InitAddr ==
    /\ args = [socket |-> <<>>, host |-> <<>>, port |-> 0,
               cert |-> "undefined", certKey |-> "undefined"]
    /\ InitBind
    /\ addrIn \in {[NoServer EXCEPT !.kind = k, !.address = a] :
                      k \in {"http", "httpolyglot"}, a \in Addresses}
    /\ addrOut = NotCalled

EnsureAddressCall ==
    /\ ~addrOut.called
    /\ addrOut' = ensureAddress(addrIn)
    /\ UNCHANGED <<bindVars, addrIn>>

NextAddr == EnsureAddressCall

SpecAddr == InitAddr /\ [][NextAddr]_vars

(***************************************************************************)
(* Properties                                                              *)
(***************************************************************************)
ErrorSignals == SelectSeq(signals, LAMBDA g : g.sig = "error")

ListeningSignals == SelectSeq(signals, LAMBDA g : g.sig = "listening")

\* the entries the permanent observer wrote
ServerLog == SelectSeq(log, LAMBDA l : l.prefix = "http server error")

\* the entries the removal of the socket file wrote
RemovalLog == SelectSeq(log, LAMBDA l : l.prefix = "")

\* the first signal of the bind is an 'error': it fired before any 'listening'
ErrorFiredFirst == signals # <<>> /\ signals[1].sig = "error"

\* the first signal of the bind is 'listening': it fired while the outcome was pending
ListeningFiredFirst == signals # <<>> /\ signals[1].sig = "listening"

\* C1: when the server emits 'error' before any 'listening', the bind outcome
\* is rejected with the emitted error, it made exactly one transition out of
\* pending, and it is never resolved, whatever the target and however many
\* errors (or a late 'listening') follow.
C1_ErrorFirstRejectsOnce ==
    ErrorFiredFirst =>
        /\ promise = [state |-> "rejected", value |-> signals[1].err]
        /\ outcomes = <<[state |-> "rejected", value |-> signals[1].err]>>

C1_Witness ==
    /\ ErrorFiredFirst
    /\ Len(ErrorSignals) >= 2
    /\ signals[2].err # signals[1].err
    /\ Len(ListeningSignals) = 1
    /\ promise.state = "rejected"

\* C2: when 'listening' fires while the outcome is pending, the outcome is
\* resolved and stays so, createApp is not rejected, and the 'http server
\* error' entries of the log are exactly the errors emitted afterwards, one
\* entry per error event, in order.
C2_PostListeningErrorsOnlyLogged ==
    ListeningFiredFirst =>
        /\ promise.state = "resolved"
        /\ result.state # "rejected"
        /\ Len(ServerLog) = Len(signals) - 1
        /\ \A i \in 1..Len(ServerLog) :
              /\ signals[i + 1].sig = "error"
              /\ ServerLog[i] = [level |-> "error", prefix |-> "http server error",
                                 text |-> signals[i + 1].err]

C2_Witness ==
    /\ ListeningFiredFirst
    /\ Len(ErrorSignals) >= 2
    /\ Len(ServerLog) = Len(ErrorSignals)
    /\ promise.state = "resolved"

\* C3: the outcome leaves pending at most once; which of 'error' and
\* 'listening' fired first decides whether it is rejected or resolved; a
\* settled outcome is never changed by a later signal.
C3_SingleTerminalTransition ==
    /\ [](/\ Len(outcomes) <= 1
          /\ (signals = <<>> => promise.state = "pending" /\ outcomes = <<>>)
          /\ (ErrorFiredFirst => promise.state = "rejected")
          /\ (ListeningFiredFirst => promise.state = "resolved")
          /\ (outcomes # <<>> => outcomes[1] = promise))
    /\ [][promise.state # "pending" => promise' = promise]_vars

C3_Witness ==
    /\ ErrorFiredFirst
    /\ Len(ListeningSignals) = 1
    /\ Len(ErrorSignals) >= 2
    /\ signals[Len(signals)].sig = "error"
    /\ Len(outcomes) = 1

\* C4: with a socket path for target, a removal that fails with an errno
\* exception of code ENOENT logs nothing, a removal that fails in any other
\* way logs exactly one error, a removal that succeeds logs nothing; in all
\* three cases listen is begun on the path, and the outcome is rejected only
\* if the server emitted an 'error' first, never by the removal's failure.
C4_SocketRemovalFailureIsNotFatal ==
    unlinkDone # <<>> =>
        LET r == unlinkDone[1]
            enoent == r # NoUnlinkError /\ r.errno /\ r.code = "ENOENT"
        IN /\ Len(unlinkDone) = 1
           /\ (r = NoUnlinkError => RemovalLog = <<>>)
           /\ (enoent => RemovalLog = <<>>)
           /\ (r # NoUnlinkError /\ ~enoent =>
                  /\ Len(RemovalLog) = 1
                  /\ RemovalLog[1].level = "error")
           /\ listenCalls = <<PathAddress(SockPath)>>
           /\ args.socket = SockPath
           /\ (promise.state = "rejected" => ErrorFiredFirst)

C4_Witness ==
    /\ unlinkDone # <<>>
    /\ unlinkDone[1].errno
    /\ unlinkDone[1].code = "EACCES"
    /\ Len(RemovalLog) = 1
    /\ promise.state = "resolved"
    /\ server.address = PathAddress(SockPath)

IsDigit(c) == c \in {"0", "1", "2", "3", "4", "5", "6", "7", "8", "9"}

DigitValue(c) == CHOOSE d \in 0..9 : Digit(d) = c

\* the number a decimal numeral denotes
RECURSIVE DecimalValue(_)
DecimalValue(t) ==
    IF t = <<>> THEN 0
    ELSE 10 * DecimalValue(SubSeq(t, 1, Len(t) - 1)) + DigitValue(t[Len(t)])

\* t is the decimal numeral of n: digits only, no leading zero
IsNumeralOf(t, n) ==
    /\ t # <<>>
    /\ \A i \in 1..Len(t) : IsDigit(t[i])
    /\ (Len(t) > 1 => t[1] # "0")
    /\ DecimalValue(t) = n

HttpScheme == <<"h", "t", "t", "p", ":", "/", "/">>

WithoutOuterBrackets(host) ==
    LET h1 == IF host # <<>> /\ Head(host) = "[" THEN Tail(host) ELSE host
    IN IF h1 # <<>> /\ h1[Len(h1)] = "]" THEN SubSeq(h1, 1, Len(h1) - 1) ELSE h1

\* C6: with a network endpoint for target, the listen call is handed the
\* supplied host without one leading "[" and without one trailing "]", the
\* rest of the host unchanged, and the supplied port; "[::1]" binds to "::1".
C6_HostBracketsStripped ==
    (args.socket = <<>> /\ listenCalls # <<>>) =>
        /\ listenCalls = <<InfoAddress(WithoutOuterBrackets(args.host), args.port)>>
        /\ server.target = listenCalls[1]
        /\ (args.host = <<"[", ":", ":", "1", "]">> =>
               listenCalls[1].address = <<":", ":", "1">>)
        /\ (args.host = <<"a", "]", "[", "b">> =>
               listenCalls[1].address = <<"a", "]", "[", "b">>)
        /\ (args.host = <<"[", "[", "a", "]", "]">> =>
               listenCalls[1].address = <<"[", "a", "]">>)

C6_Witness ==
    /\ args.socket = <<>>
    /\ args.host = <<"[", ":", ":", "1", "]">>
    /\ args.port = 8080
    /\ listenCalls = <<InfoAddress(<<":", ":", "1">>, 8080)>>
    /\ server.address = InfoAddress(<<":", ":", "1">>, 8080)

\* C7: the server createApp builds is the encrypted-transport kind exactly
\* when a certificate is supplied, then configured with the certificate and
\* with the private key if one is supplied; without a certificate it is
\* plaintext, also when a private key is supplied; either way it is wired to
\* the primary request handler.
C7_TransportFollowsCertificate ==
    server.kind # "none" =>
        /\ (args.cert # "undefined" =>
               /\ server.kind = "httpolyglot"
               /\ server.cert = "CERT-BYTES"
               /\ (args.certKey = "/key.pem" => server.key = "KEY-BYTES")
               /\ (args.certKey # "/key.pem" => server.key = args.certKey))
        /\ (args.cert = "undefined" =>
               /\ server.kind = "http"
               /\ server.cert = "undefined"
               /\ server.key = "undefined")
        /\ app = 1
        /\ server.handler = app
        /\ server.requestListeners = <<app>>
        /\ objs[app] = <<"compression">>

C7_Witness ==
    /\ server.kind = "httpolyglot"
    /\ server.cert = "CERT-BYTES"
    /\ server.key = "KEY-BYTES"
    /\ server.handler = app
    /\ pc = "done"

ListenRejectedWith(e) == promise = [state |-> "rejected", value |-> e]

\* C8: once listen has rejected with e, createApp never resolves, returns
\* no triple and attaches no upgrade dispatcher, and it comes to be rejected
\* with that same e.
C8_BindFailureIsFatal ==
    /\ [](promise.state = "rejected" =>
            /\ pc \in {"awaitListen", "failed"}
            /\ result.state # "resolved"
            /\ result.app = 0 /\ result.wsApp = 0
            /\ wsApp = 0
            /\ Len(objs) = 1
            /\ server.upgradeListeners = <<>>
            /\ (pc = "failed" =>
                   result.state = "rejected" /\ result.value = promise.value))
    /\ \A e \in Errors :
          ListenRejectedWith(e) ~> (result.state = "rejected" /\ result.value = e)

C8_Witness ==
    /\ promise.state = "rejected"
    /\ pc = "failed"
    /\ result.state = "rejected"
    /\ result.value = promise.value
    /\ Len(ListeningSignals) = 1

\* C9: the step of createApp that attaches the upgrade dispatcher creates a
\* fresh, empty handler distinct from the primary handler, registers it for
\* the server's upgrade events only, and leaves the primary handler's chain,
\* the server's request listeners, its bind state and its error observers as
\* they were.
C9_UpgradeAttachmentFrame ==
    [][(pc = "awaitListen" /\ pc' = "done") =>
          /\ wsApp' # app
          /\ wsApp' \notin 1..Len(objs)
          /\ wsApp' \in 1..Len(objs')
          /\ objs'[wsApp'] = <<>>
          /\ \A i \in 1..Len(objs) : objs'[i] = objs[i]
          /\ app' = app
          /\ server'.upgradeListeners = Append(server.upgradeListeners, wsApp')
          /\ server'.requestListeners = server.requestListeners
          /\ server'.handler = server.handler
          /\ server'.errorListeners = server.errorListeners
          /\ server'.listeningListeners = server.listeningListeners
          /\ server'.address = server.address
          /\ server'.target = server.target
          /\ server'.kind = server.kind
          /\ promise' = promise]_vars

C9_Witness ==
    /\ pc = "done"
    /\ wsApp = 2
    /\ app = 1
    /\ objs = <<(<<"compression">>), <<>>>>
    /\ server.upgradeListeners = <<2>>
    /\ server.requestListeners = <<1>>
    /\ server.errorListeners = <<"log">>

\* the underlying listen call is begun at most once, on the one target of
\* the bind, and the socket file is removed at most once
AtMostOneListenAttempt ==
    /\ Len(listenCalls) <= 1
    /\ Len(unlinkCalls) <= 1
    /\ (listenCalls # <<>> =>
           listenCalls[1] = IF args.socket # <<>> THEN PathAddress(args.socket)
                            ELSE InfoAddress(WithoutOuterBrackets(args.host), args.port))

\* C10: no retries: the listen call is begun at most once, on exactly one
\* target, and once the bind has failed the component begins no listen
\* attempt and no socket-file removal.
C10_NoAttemptAfterFailure ==
    /\ []AtMostOneListenAttempt
    /\ [][promise.state = "rejected" =>
             listenCalls' = listenCalls /\ unlinkCalls' = unlinkCalls]_vars

\* the bind has been initiated: listen has run up to its first suspension
BindInitiated == lpc # "idle"

\* C11: a bind that is initiated reaches resolved or rejected, given that the
\* removal of the socket file completes and that the server answers the
\* listen call with 'listening' or 'error'; and the outcome leaves pending
\* only in a step in which the server emits a signal, never by an abort or a
\* timeout of the caller.
C11_BindRunsToOutcome ==
    /\ BindInitiated ~> (promise.state # "pending")
    /\ [][(promise.state = "pending" /\ promise'.state # "pending") =>
             (Len(signals') = Len(signals) + 1 /\ pc' = pc /\ result' = result)]_vars

C11_Witness ==
    /\ args.socket # <<>>
    /\ unlinkDone # <<>>
    /\ lpc = "listenCalled"
    /\ promise.state = "resolved"
    /\ signals = <<[sig |-> "listening", err |-> ""]>>

\* C12 as stated: createApp never reads a certificate or key file.
C12_NoCredentialFileRead == fileReads = <<>>

\* C12 (amended): createApp reads no credential file when no certificate is
\* supplied, also when a private key is supplied; when a certificate is
\* supplied it reads the certificate file itself, then the private-key file
\* if a non-empty key path is supplied, each at most once and before the
\* server is constructed.
C12_CredentialReadsFollowCertificate ==
    /\ (args.cert = "undefined" => fileReads = <<>>)
    /\ (args.cert # "undefined" =>
           /\ fileReads \in {<<>>, <<args.cert>>, <<args.cert, args.certKey>>}
           /\ (Len(fileReads) = 2 => args.certKey = "/key.pem")
           /\ (server.kind # "none" =>
                  /\ Len(fileReads) >= 1
                  /\ (args.certKey = "/key.pem" => Len(fileReads) = 2)
                  /\ Len(readDone) = Len(fileReads)))

C12_Witness ==
    /\ fileReads = <<"/cert.pem", "/key.pem">>
    /\ server.kind = "httpolyglot"
    /\ lpc # "idle"

\* C13: listening is begun on one target variant only: on the socket path
\* whenever a non-empty socket path is supplied, whatever host and port come
\* with it, and on host:port otherwise; no removal of a socket file is
\* attempted when the target is host:port.
C13_ExactlyOneTargetVariant ==
    /\ Len(listenCalls) <= 1
    /\ \A i \in 1..Len(listenCalls) :
          /\ listenCalls[i].kind = (IF args.socket # <<>> THEN "string" ELSE "info")
          /\ (args.socket # <<>> => listenCalls[i].path = args.socket)
    /\ (args.socket = <<>> => unlinkCalls = <<>> /\ unlinkDone = <<>>)
    /\ (args.socket # <<>> => server.target.kind # "info" /\ server.address.kind # "info")
    /\ (args.socket = <<>> => server.target.kind # "string" /\ server.address.kind # "string")

C13_Witness ==
    /\ args.socket = SockPath
    /\ args.host = <<"[", ":", ":", "1", "]">>
    /\ args.port = 8080
    /\ listenCalls = <<PathAddress(SockPath)>>
    /\ server.address = PathAddress(SockPath)

\* the position of 'listening' among the signals, or one past the last signal
ListeningIndex ==
    IF \E i \in 1..Len(signals) : signals[i].sig = "listening"
    THEN CHOOSE i \in 1..Len(signals) : signals[i].sig = "listening"
    ELSE Len(signals) + 1

\* the errors emitted before 'listening' fired, in order
ErrorsBeforeListening == [i \in 1..(ListeningIndex - 1) |-> signals[i].err]

\* the errors emitted after 'listening' fired, in order
ErrorsAfterListening ==
    [i \in 1..(Len(signals) - ListeningIndex) |-> signals[ListeningIndex + i].err]

ServerLogEntry(e) == [level |-> "error", prefix |-> "http server error", text |-> e]

\* C14: from the moment the server exists, exactly one of the two observers
\* of the bind is registered for 'error': the rejecting one until
\* 'listening' fires, the logging one from then on; every error event is
\* handled by exactly one of them, the errors before 'listening' by reject
\* and the errors after it by the logger.
C14_ObserverHandoffAtomic ==
    server.kind # "none" =>
        /\ Len(server.errorListeners) = 1
        /\ server.errorListeners =
              (IF ListeningSignals = <<>> THEN <<"reject">> ELSE <<"log">>)
        /\ Len(rejectCalls) + Len(ServerLog) = Len(ErrorSignals)
        /\ Len(rejectCalls) = Len(ErrorsBeforeListening)
        /\ \A i \in 1..Len(rejectCalls) : rejectCalls[i] = ErrorsBeforeListening[i]
        /\ Len(ServerLog) = Len(ErrorsAfterListening)
        /\ \A i \in 1..Len(ServerLog) : ServerLog[i].text = ErrorsAfterListening[i]

C14_Witness ==
    /\ Len(rejectCalls) >= 1
    /\ Len(ServerLog) >= 1
    /\ server.errorListeners = <<"log">>
    /\ signals[Len(signals)].sig = "error"

\* C15: once the provisional observer has failed the bind outcome the
\* operation is complete; stated for the case the claim singles out, a socket
\* path for target: after the outcome is rejected no listen is begun and no
\* observer is installed on the server.
C15_FailedBindIsComplete ==
    [][(args.socket # <<>> /\ promise.state = "rejected") =>
          /\ listenCalls' = listenCalls
          /\ server'.listeningListeners = server.listeningListeners
          /\ server'.errorListeners = server.errorListeners]_vars

\* C16: fed the same 'error' and 'listening' events, the flag-based
\* handleServerError and the observer swap of listen make the same reject
\* calls and write the same 'http server error' entries; the flag-based
\* handler passes to reject exactly the errors that arrive while resolved is
\* false and logs exactly those that arrive once it is true.
C16_FlagHandlerEquivalent ==
    /\ flag.rejectCalls = rejectCalls
    /\ flag.log = ServerLog
    /\ flag.resolved = (ListeningSignals # <<>>)
    /\ Len(flag.rejectCalls) = Len(ErrorsBeforeListening)
    /\ \A i \in 1..Len(flag.rejectCalls) : flag.rejectCalls[i] = ErrorsBeforeListening[i]
    /\ Len(flag.log) = Len(ErrorsAfterListening)
    /\ \A i \in 1..Len(flag.log) : flag.log[i] = ServerLogEntry(ErrorsAfterListening[i])

C16_Witness ==
    /\ flag.resolved
    /\ Len(flag.rejectCalls) >= 1
    /\ Len(flag.log) >= 1
    /\ flag.rejectCalls = rejectCalls
    /\ flag.log = ServerLog
    /\ flag.rejectCalls[1] # flag.log[1].text

\* C17: with a socket path for target, the provisional observer is
\* registered by the time the removal is begun, nothing is listened on while
\* the removal is in progress, and listen on the path has been begun only
\* if the removal attempt has completed.
C17_ListenAfterRemovalCompletes ==
    args.socket # <<>> =>
        /\ (server.kind # "none" => unlinkCalls = <<args.socket>>)
        /\ (unlinkCalls # <<>> => server.kind # "none" /\ server.errorListeners # <<>>)
        /\ (lpc = "unlinking" =>
               /\ server.errorListeners = <<"reject">>
               /\ unlinkDone = <<>>
               /\ listenCalls = <<>>
               /\ server.listeningListeners = <<>>
               /\ server.target = NoAddress)
        /\ (listenCalls # <<>> => Len(unlinkDone) = 1 /\ lpc = "listenCalled")
        /\ (unlinkDone = <<>> => listenCalls = <<>> /\ ListeningSignals = <<>>)

C17_Witness ==
    /\ args.socket = SockPath
    /\ unlinkDone # <<>>
    /\ unlinkDone[1].code = "EACCES"
    /\ listenCalls = <<PathAddress(SockPath)>>
    /\ server.errorListeners = <<"reject">>
    /\ ErrorFiredFirst

\* C18: the upgrade dispatcher is attached at most once, only once the bind
\* outcome is resolved, and the triple is returned with it; the server of a
\* returned triple is bound to the target of its listen call, has the
\* logging observer registered, and ensureAddress on it returns an address.
C18_TripleOnlyAfterBind ==
    /\ Len(server.upgradeListeners) <= 1
    /\ (server.upgradeListeners # <<>> =>
           /\ promise.state = "resolved"
           /\ pc = "done"
           /\ result.state = "resolved")
    /\ (result.state = "resolved" =>
           /\ pc = "done"
           /\ promise.state = "resolved"
           /\ result.app = app /\ result.wsApp = wsApp
           /\ server.upgradeListeners = <<wsApp>>
           /\ server.address.kind # "null"
           /\ server.address = server.target
           /\ server.errorListeners = <<"log">>
           /\ ~ensureAddress(server).threw)
    /\ (addrOut.called => ~addrOut.threw /\ addrOut.value # <<>>)

C18_Witness ==
    /\ pc = "done"
    /\ result.state = "resolved"
    /\ server.upgradeListeners = <<wsApp>>
    /\ args.socket = <<>>
    /\ addrOut.called
    /\ ~addrOut.threw
    /\ Len(ServerLog) >= 1

NumberOfLogObservers ==
    Len(SelectSeq(server.errorListeners, LAMBDA l : l = "log"))

\* C19: the logging observer is registered at most once, and exactly when
\* the bind's 'listening' has fired; after a bind that failed with
\* 'listening' never fired, the provisional observer stays registered, every
\* later error is handed to reject without effect, nothing is logged for it,
\* and what createApp rejects with is still the first error.
C19_LogObserverOnlyByListening ==
    /\ NumberOfLogObservers <= 1
    /\ Len(ListeningSignals) <= 1
    /\ (NumberOfLogObservers = 1) = (ListeningSignals # <<>>)
    /\ (promise.state = "rejected" /\ ListeningSignals = <<>> =>
           /\ server.errorListeners = <<"reject">>
           /\ ServerLog = <<>>
           /\ Len(rejectCalls) = Len(signals)
           /\ promise.value = signals[1].err
           /\ Len(outcomes) = 1
           /\ (result.state # "pending" =>
                  result.state = "rejected" /\ result.value = signals[1].err))

C19_Witness ==
    /\ promise.state = "rejected"
    /\ ListeningSignals = <<>>
    /\ Len(ErrorSignals) >= 2
    /\ signals[2].err # signals[1].err
    /\ pc = "failed"
    /\ lpc = "listenCalled"

\* C20: when the read of the certificate or of the private key fails,
\* createApp is rejected with the read error and no bind step has run or
\* runs: no server, no error observer, no removal of a socket file, no
\* listen, no upgrade dispatcher.
C20_ReadFailureBeforeBind ==
    (readDone # <<>> /\ readDone[Len(readDone)] # "ok") =>
        /\ pc = "failed"
        /\ result.state = "rejected"
        /\ result.value = readDone[Len(readDone)]
        /\ result.app = 0 /\ result.wsApp = 0
        /\ server = NoServer
        /\ lpc = "idle"
        /\ promise = Pending
        /\ unlinkCalls = <<>>
        /\ listenCalls = <<>>
        /\ signals = <<>>
        /\ rejectCalls = <<>>
        /\ wsApp = 0

C20_Witness ==
    /\ readDone = <<"ok", "EISDIR">>
    /\ fileReads = <<"/cert.pem", "/key.pem">>
    /\ pc = "failed"
    /\ result.value = "EISDIR"
    /\ server = NoServer

====
